---- MODULE Spec2Model ----
(***************************************************************************)
(* The response store and the feedback aggregation engine of the 360       *)
(* Development Catalyst (src/database.py, src/framework.py), and the       *)
(* PAPU-NANU categorisation of the report (src/report_generator.py).       *)
(*                                                                         *)
(* Scores are kept as integers scaled by 100 (4.5 is 450, a gap of -0.25   *)
(* is -25), so that the one- and two-decimal roundings of the code are     *)
(* integer computations.  A Python dict is a function whose DOMAIN is the  *)
(* set of keys present.                                                    *)
(***************************************************************************)
EXTENDS Integers, Sequences, FiniteSets, Bags, TLC

VARIABLES raters, ratings, comments, next_rater_id, pc, result,
          categories, previous, report, sessions, reader

\* the variables of the report side: the last value categorize_papu_nanu
\* returned, the value a call returned the time before it was repeated, and
\* the report generated last (leader and report type)
report_vars == <<categories, previous, report>>

\* the variables of the concurrent runs: each browser session's position in
\* its submission, and what a running get_leader_feedback_data has read so far
conc_vars == <<sessions, reader>>
vars == <<raters, ratings, comments, next_rater_id, pc, result, report_vars,
          conc_vars>>

(***************************************************************************)
(* Bounds of the model.  The framework of the code has 9 dimensions of 5   *)
(* items and 2 overall items; the model keeps the shape (contiguous        *)
(* dimension ranges followed by the two overall items) on fewer items.     *)
(***************************************************************************)
MaxRaters == 4

NumDimensions == 1

ItemsPerDimension == 2

\* the raters ever added, and the comment rows stored, in the runs that call
\* the methods of the store one by one
MaxApiRaters == 2

MaxComments == 2

\* the raters added after the demo data has been loaded
MaxExtraRaters == 1

(***************************************************************************)
(* framework.py                                                            *)
(***************************************************************************)
ANONYMITY_THRESHOLD == 3

DimensionNames ==
    <<"Leading Self", "Developing Others", "Building High-Performing Teams",
      "Driving Results", "Leading Change", "Communicating & Influencing",
      "Building Trust", "Thinking Strategically", "Performance Excellence">>

DimensionIds == 1..NumDimensions

\* DIMENSIONS: dimension name -> (start, end), contiguous ranges from item 1
DIMENSIONS ==
    [d \in DimensionIds |->
        <<(d - 1) * ItemsPerDimension + 1, d * ItemsPerDimension>>]

\* the item numbers: the dimensions' items, then the two overall items
\* (range(1, 48) in the code)
NumItems == NumDimensions * ItemsPerDimension + 2

Items == 1..NumItems

\* [46, 47] in the code: the last two items of the framework
OverallItems == {NumItems - 1, NumItems}

RELATIONSHIP_TYPES == <<"Self", "Boss", "Peers", "DRs", "Others">>

COMMENT_SECTIONS ==
    {DimensionNames[d] : d \in DimensionIds} \cup {"strengths", "development"}

(***************************************************************************)
(* Helpers for Python values                                               *)
(***************************************************************************)
\* SQL NULL / Python None in an integer column
NULL == -1

\* d.get(k, default)
Get(d, k, default) == IF k \in DOMAIN d THEN d[k] ELSE default

\* x in list
InList(x, list) == \E n \in 1..Len(list) : list[n] = x

RECURSIVE SumOver(_, _)
\* sum(f[x] for x in S)
SumOver(S, f) ==
    IF S = {} THEN 0
    ELSE LET x == CHOOSE y \in S : TRUE
         IN  f[x] + SumOver(S \ {x}, f)

\* round(num / den) to the nearest integer for num >= 0, den > 0; an exact
\* tie goes to the even neighbour, as Python's round() does on a double that
\* is the tie exactly.  This is the code's result for every item average of
\* fewer than 20 scores, for every Combined of up to three categories and
\* for every Gap; where a two-decimal mean lies exactly halfway and its
\* double is not the tie, Python follows the double, one hundredth up or
\* down, and the properties below accept either neighbour (IsRoundedMean)
RoundHalfEven(num, den) ==
    LET q == num \div den
        r == num % den
    IN  IF 2 * r < den THEN q
        ELSE IF 2 * r > den THEN q + 1
        ELSE IF q % 2 = 0 THEN q ELSE q + 1

\* round(total / n, 1) for a total of integer scores, scaled by 100
RoundOneDecimal(total, n) == 10 * RoundHalfEven(10 * total, n)

\* round(scaled_total / n, 2) for a total of values scaled by 100, scaled by 100
RoundTwoDecimals(scaled_total, n) == RoundHalfEven(scaled_total, n)

\* the bag of the elements of bag B that are in the set S
FilterBag(B, S) == [x \in DOMAIN B \cap S |-> B[x]]

\* the bag of f[x] for the elements x of bag B, as many times as x is in B
MapBag(B, f) ==
    [y \in {f[x] : x \in DOMAIN B} |->
        SumOver({x \in DOMAIN B : f[x] = y}, B)]

\* text.strip() on a text kept as a sequence of characters
RECURSIVE LStrip(_)
LStrip(text) ==
    IF text # <<>> /\ Head(text) = " " THEN LStrip(Tail(text)) ELSE text

RECURSIVE RStrip(_)
RStrip(text) ==
    IF text # <<>> /\ text[Len(text)] = " "
    THEN RStrip(SubSeq(text, 1, Len(text) - 1)) ELSE text

Strip(text) == RStrip(LStrip(text))

\* int(score) on a form value "1".."5", and on the values "0" and "7" a
\* caller of submit_ratings can pass as well
IntOf(score) ==
    CASE score = "1" -> 1 [] score = "2" -> 2 [] score = "3" -> 3
      [] score = "4" -> 4 [] score = "5" -> 5
      [] score = "0" -> 0 [] score = "7" -> 7

(***************************************************************************)
(* The response store: database.py, tables raters, ratings, comments.      *)
(*   raters   : set of rows [id, leader_id, relationship, completed]       *)
(*              (completed is "completed_at IS NOT NULL")                  *)
(*   ratings  : set of rows [rater_id, item_number, score, no_opportunity, *)
(*              not_applicable], UNIQUE(rater_id, item_number)             *)
(*   comments : the bag of rows [rater_id, section, comment_text] (the     *)
(*              table has no uniqueness constraint, and the comments query *)
(*              has no ORDER BY: the order of its rows is not kept)        *)
(***************************************************************************)
\* add_rater, called `count` times in a row: the new rows get the next ids
add_rater(leader_id, relationship, first_id, count) ==
    {[id |-> first_id + k, leader_id |-> leader_id,
      relationship |-> relationship, completed |-> FALSE] : k \in 0..(count - 1)}

\* the row submit_ratings writes for one (item_num, score) of its dict
rating_row(rater_id, item_num, score) ==
    LET no_opp == (score = "NO")
        not_applicable == (score = "NA")
        actual_score == IF no_opp \/ not_applicable THEN NULL ELSE IntOf(score)
    IN  [rater_id |-> rater_id, item_number |-> item_num, score |-> actual_score,
         no_opportunity |-> no_opp, not_applicable |-> not_applicable]

\* submit_ratings with a plain INSERT
submit_ratings_inserting(table, rater_id, sheet) ==
    table \cup {rating_row(rater_id, i, sheet[i]) : i \in DOMAIN sheet}

\* submit_ratings: INSERT OR REPLACE of one row per item of the dict
submit_ratings(table, rater_id, sheet) ==
    {row \in table :
        ~(row.rater_id = rater_id /\ row.item_number \in DOMAIN sheet)}
    \cup {rating_row(rater_id, i, sheet[i]) : i \in DOMAIN sheet}

RECURSIVE submit_comments(_, _, _)
\* submit_comments: INSERT of one row per (section, text) whose text is not
\* blank, the text stripped; `entries` is the dict in insertion order
submit_comments(table, rater_id, entries) ==
    IF entries = <<>> THEN table
    ELSE LET section == Head(entries)[1]
             text == Head(entries)[2]
             kept == IF text # <<>> /\ Strip(text) # <<>>
                     THEN table (+) SetToBag({[rater_id |-> rater_id,
                                               section |-> section,
                                               comment_text |-> Strip(text)]})
                     ELSE table
         IN  submit_comments(kept, rater_id, Tail(entries))

\* mark_rater_complete: UPDATE raters SET completed_at = now WHERE id = ?
mark_rater_complete(table, rater_id) ==
    {IF r.id = rater_id THEN [r EXCEPT !.completed = TRUE] ELSE r : r \in table}

\* delete_rater without the DELETE on comments
delete_rater_keeping_comments(rater_table, rating_table, comment_table, rater_id) ==
    [raters |-> {r \in rater_table : r.id # rater_id},
     ratings |-> {q \in rating_table : q.rater_id # rater_id},
     comments |-> comment_table]

\* delete_rater: DELETE of the rater's ratings, comments and rater row, then
\* one commit; the three tables afterwards
delete_rater(rater_table, rating_table, comment_table, rater_id) ==
    [raters |-> {r \in rater_table : r.id # rater_id},
     ratings |-> {q \in rating_table : q.rater_id # rater_id},
     comments |-> FilterBag(comment_table,
                            {c \in DOMAIN comment_table : c.rater_id # rater_id})]

(***************************************************************************)
(* get_leader_feedback_data: the anonymity grouping                        *)
(***************************************************************************)
\* the counts query without "completed_at IS NOT NULL"
raw_response_counts_of_all_raters(rater_table, leader_id) ==
    LET done == {r \in rater_table : r.leader_id = leader_id}
    IN  [g \in {r.relationship : r \in done} |->
            Cardinality({r \in done : r.relationship = g})]

\* the counts query and raw_response_counts: completed raters of the leader
\* per relationship (GROUP BY: a relationship with no completed rater has no
\* key); relationship_map maps every relationship to itself
raw_response_counts(rater_table, leader_id) ==
    LET done == {r \in rater_table : r.leader_id = leader_id /\ r.completed}
    IN  [g \in {r.relationship : r \in done} |->
            Cardinality({r \in done : r.relationship = g})]

\* visible_groups with the comparison "count > ANONYMITY_THRESHOLD"
visible_groups_strict(raw) ==
    <<"Self", "Boss">> \o
    SelectSeq(<<"Peers", "DRs", "Others">>,
              LAMBDA group : Get(raw, group, 0) > ANONYMITY_THRESHOLD)

\* visible_groups with Others listed as soon as a hidden group is folded in
visible_groups_with_folded_others(raw) ==
    <<"Self", "Boss">> \o
    SelectSeq(<<"Peers", "DRs", "Others">>,
              LAMBDA group :
                  \/ Get(raw, group, 0) >= ANONYMITY_THRESHOLD
                  \/ /\ group = "Others"
                     /\ \E g \in {"Peers", "DRs"} :
                           Get(raw, g, 0) \in 1..(ANONYMITY_THRESHOLD - 1))

\* visible_groups: Self and Boss, then each of Peers, DRs, Others whose own
\* raw count reaches the threshold
visible_groups(raw) ==
    <<"Self", "Boss">> \o
    SelectSeq(<<"Peers", "DRs", "Others">>,
              LAMBDA group : Get(raw, group, 0) >= ANONYMITY_THRESHOLD)

\* hidden_groups: each of Peers, DRs, Others with some raters but too few
hidden_groups(raw) ==
    SelectSeq(<<"Peers", "DRs", "Others">>,
              LAMBDA group : Get(raw, group, 0) < ANONYMITY_THRESHOLD
                             /\ Get(raw, group, 0) > 0)

\* others_count without the hidden groups' counts folded in
others_count_unfolded(raw) == Get(raw, "Others", 0)

\* others_count after the loop over Self, Boss, Peers, DRs
others_count(raw) ==
    LET visible == visible_groups(raw)
        hidden == hidden_groups(raw)
        folded == {g \in {"Self", "Boss", "Peers", "DRs"} :
                      ~InList(g, visible) /\ InList(g, hidden)}
    IN  Get(raw, "Others", 0) + SumOver(folded, [g \in folded |-> Get(raw, g, 0)])

\* response_counts with every group that has a rater listed under its own key
response_counts_unfiltered(raw) ==
    [g \in {"Self", "Boss"} \cup DOMAIN raw |-> Get(raw, g, 0)]

\* response_counts: the visible groups' own counts, and Others with the
\* hidden groups' counts folded in
response_counts(raw) ==
    LET visible == visible_groups(raw)
        shown == {g \in {"Self", "Boss", "Peers", "DRs"} : InList(g, visible)}
        others == IF others_count(raw) > 0 \/ InList("Others", visible)
                  THEN {"Others"} ELSE {}
    IN  [g \in shown \cup others |->
            IF g = "Others" THEN others_count(raw) ELSE Get(raw, g, 0)]

\* map_group, the closure over hidden_groups
map_group(hidden, group) == IF InList(group, hidden) THEN "Others" ELSE group

(***************************************************************************)
(* get_leader_feedback_data: the score aggregation                         *)
(***************************************************************************)
\* the ratings query without "r.completed_at IS NOT NULL"
rating_rows_of_all_raters(rater_table, rating_table, leader_id) ==
    LET done == {r \in rater_table : r.leader_id = leader_id}
        relationship == [id \in {r.id : r \in done} |->
                            (CHOOSE r \in done : r.id = id).relationship]
    IN  {[rater_id |-> rt.rater_id, item_number |-> rt.item_number,
          relationship |-> relationship[rt.rater_id], score |-> rt.score,
          no_opportunity |-> rt.no_opportunity] :
            rt \in {q \in rating_table : q.rater_id \in DOMAIN relationship}}

\* the ratings query: the rating rows of the leader's completed raters, each
\* joined with its rater's relationship (one result row per rating row)
rating_rows(rater_table, rating_table, leader_id) ==
    LET done == {r \in rater_table : r.leader_id = leader_id /\ r.completed}
        relationship == [id \in {r.id : r \in done} |->
                            (CHOOSE r \in done : r.id = id).relationship]
    IN  {[rater_id |-> rt.rater_id, item_number |-> rt.item_number,
          relationship |-> relationship[rt.rater_id], score |-> rt.score,
          no_opportunity |-> rt.no_opportunity] :
            rt \in {q \in rating_table : q.rater_id \in DOMAIN relationship}}

\* the rating rows of one item ("item_num = row['item_number']")
item_rows(rows, item_num) == {row \in rows : row.item_number = item_num}

\* item_scores with the scores collected under the raw relationship
item_scores_unmapped(rows, hidden, item_num, group) ==
    {row \in rows : /\ row.item_number = item_num
                    /\ row.relationship = group
                    /\ ~row.no_opportunity
                    /\ row.score # NULL}

\* the rows behind item_scores[item_num][group]: a 'no opportunity' row
\* counts as such, and of the others only a row with a score is appended
item_scores(rows, hidden, item_num, group) ==
    {row \in rows : /\ row.item_number = item_num
                    /\ map_group(hidden, row.relationship) = group
                    /\ ~row.no_opportunity
                    /\ row.score # NULL}

\* no_opp_rows with every row without a score counted ('not applicable' too)
no_opp_rows_unscored(rows) == {row \in rows : row.score = NULL}

\* "if row['no_opportunity']": the rows counted as 'no opportunity'
no_opp_rows(rows) == {row \in rows : row.no_opportunity}

\* the rows behind item_no_opp[item_num][group]
item_no_opp(rows, hidden, item_num, group) ==
    {row \in no_opp_rows(rows) :
        /\ row.item_number = item_num
        /\ map_group(hidden, row.relationship) = group}

\* the keys of item_scores[item_num]: the mapped groups of the item's rows
item_groups(rows, hidden, item_num) ==
    {map_group(hidden, row.relationship) :
        row \in {r \in rows : r.item_number = item_num}}

\* by_item[item_num] after "Calculate averages per item per group": the
\* mean, rounded to one decimal, for each group with a non-empty score list
item_averages(rows, hidden, item_num) ==
    LET lists == [g \in item_groups(rows, hidden, item_num) |->
                     item_scores(rows, hidden, item_num, g)]
    IN  [g \in {h \in DOMAIN lists : lists[h] # {}} |->
            RoundOneDecimal(SumOver(lists[g], [row \in lists[g] |-> row.score]),
                            Cardinality(lists[g]))]

\* other_groups with Self among the groups averaged
other_groups_with_self(item, visible) ==
    {g \in {"Self", "Boss", "Peers", "DRs", "Others"} :
        (InList(g, visible) \/ g = "Others") /\ g \in DOMAIN item}

\* the groups whose score enters other_scores for an item
other_groups(item, visible) ==
    {g \in {"Boss", "Peers", "DRs", "Others"} :
        (InList(g, visible) \/ g = "Others") /\ g \in DOMAIN item}

\* gap with the operands exchanged
gap_reversed(self_score, combined) == combined - self_score

\* round(self_score - combined, 2): both are multiples of 0.01, the scaled
\* difference is the rounded value
gap(self_score, combined) == self_score - combined

\* an item of by_item after "Calculate combined scores and gaps", from the
\* item with its group averages
with_combined(item, visible) ==
    LET others == other_groups(item, visible)
        combined == RoundTwoDecimals(SumOver(others, [g \in others |-> item[g]]),
                                     Cardinality(others))
        keys == DOMAIN item
                \cup (IF others # {} THEN {"Combined"} ELSE {})
                \cup (IF others # {} /\ "Self" \in DOMAIN item
                      THEN {"Gap"} ELSE {})
    IN  [k \in keys |->
            IF k = "Combined" THEN combined
            ELSE IF k = "Gap" THEN gap(item["Self"], combined)
            ELSE item[k]]

\* by_item[item_num]: the group averages, then Combined and Gap
item_entry(rows, hidden, visible, item_num) ==
    LET item == item_averages(rows, hidden, item_num)
    IN  with_combined(item, visible)

\* by_item: one entry per item of the framework
by_item(rows, hidden, visible) ==
    [item_num \in Items |->
        item_entry(item_rows(rows, item_num), hidden, visible, item_num)]

\* no_opportunity: for each item with a 'no opportunity' response, the total
\* and the groups list (kept as a bag: mapped group -> number of entries)
no_opportunity(rows, hidden) ==
    LET of_item == [item_num \in Items |-> item_rows(rows, item_num)]
        total == [item_num \in Items |->
                     Cardinality(no_opp_rows(of_item[item_num]))]
    IN  [item_num \in {i \in Items : total[i] > 0} |->
            [count |-> total[item_num],
             groups |->
                [g \in {h \in item_groups(of_item[item_num], hidden, item_num) :
                           item_no_opp(of_item[item_num], hidden, item_num, h)
                               # {}} |->
                    Cardinality(item_no_opp(of_item[item_num], hidden,
                                            item_num, g))]]]

\* dim_scores[g] of a dimension: the items of its range with a value for g
dim_scores(items, range, g) == {i \in range : g \in DOMAIN items[i]}

\* dimension_mean with the items without a value counted as zero
dimension_mean_over_range(items, range, g) ==
    LET present == {i \in range : g \in DOMAIN items[i]}
    IN  RoundTwoDecimals(SumOver(present, [i \in present |-> items[i][g]]),
                         Cardinality(range))

\* round(sum(scores) / len(scores), 2) over dim_scores[g]
dimension_mean(items, range, g) ==
    LET present == dim_scores(items, range, g)
    IN  RoundTwoDecimals(SumOver(present, [i \in present |-> items[i][g]]),
                         Cardinality(present))

\* by_dimension[dim_name] for the dimension with range DIMENSIONS[d]
dimension_entry(items, visible, d) ==
    LET range == DIMENSIONS[d][1]..DIMENSIONS[d][2]
        kept == {g \in {"Self", "Boss", "Peers", "DRs", "Others", "Combined"} :
                    /\ dim_scores(items, range, g) # {}
                    /\ (InList(g, visible) \/ g \in {"Self", "Combined", "Others"})}
        mean(g) == dimension_mean(items, range, g)
        keys == kept \cup (IF "Self" \in kept /\ "Combined" \in kept
                           THEN {"Gap"} ELSE {})
    IN  [k \in keys |->
            IF k = "Gap" THEN gap(mean("Self"), mean("Combined")) ELSE mean(k)]

\* by_dimension: one entry per dimension name
by_dimension(items, visible) ==
    [dim_name \in {DimensionNames[d] : d \in DimensionIds} |->
        dimension_entry(items, visible,
                        CHOOSE d \in DimensionIds : DimensionNames[d] = dim_name)]

(***************************************************************************)
(* get_leader_feedback_data: the comments, and the result                  *)
(***************************************************************************)
\* the comments query: the comment rows of the leader's completed raters,
\* each joined with its rater's relationship
comment_rows(rater_table, comment_table, leader_id) ==
    LET owners(c) == {r \in rater_table : /\ r.id = c.rater_id
                                          /\ r.leader_id = leader_id
                                          /\ r.completed}
        kept == {c \in DOMAIN comment_table : owners(c) # {}}
        joined == [c \in kept |->
                      [section |-> c.section, comment_text |-> c.comment_text,
                       relationship |-> (CHOOSE r \in owners(c) : TRUE).relationship]]
    IN  MapBag(FilterBag(comment_table, kept), joined)

\* the comment entries appended to the list of one section
section_comments(rows, hidden, section) ==
    LET kept == {row \in DOMAIN rows : row.section = section}
        comment == [row \in kept |->
                       [group |-> map_group(hidden, row.relationship),
                        text |-> row.comment_text]]
    IN  MapBag(FilterBag(rows, kept), comment)

\* the comments dict: the 'strengths' and 'development' lists, and by_section
\* for every other section that has a row (each list kept as a bag)
comments_dict(rows, hidden) ==
    [by_section |->
        [section \in {row.section : row \in DOMAIN rows}
                     \ {"strengths", "development"} |->
            section_comments(rows, hidden, section)],
     strengths |-> section_comments(rows, hidden, "strengths"),
     development |-> section_comments(rows, hidden, "development")]

\* the data dict, from the counts and the rating rows read
data_dict(raw, rows) ==
    LET visible == visible_groups(raw)
        hidden == hidden_groups(raw)
        items == by_item(rows, hidden, visible)
    IN  [by_item |-> items,
         by_dimension |-> by_dimension(items, visible),
         overall |-> [item_num \in OverallItems |-> items[item_num]],
         response_counts |-> response_counts(raw),
         raw_response_counts |-> raw,
         no_opportunity |-> no_opportunity(rows, hidden),
         visible_groups |-> visible,
         hidden_groups |-> hidden,
         anonymity_applied |-> Len(hidden) > 0]

\* get_leader_feedback_data appending the strengths comments to those of the
\* result the caller already holds
get_leader_feedback_data_appending(rater_table, rating_table, comment_table, leader_id) ==
    LET raw == raw_response_counts(rater_table, leader_id)
        fresh == [data |-> data_dict(raw, rating_rows(rater_table, rating_table, leader_id)),
                  comments |-> comments_dict(
                                   comment_rows(rater_table, comment_table, leader_id),
                                   hidden_groups(raw))]
    IN  IF result = <<>> THEN fresh
        ELSE [fresh EXCEPT !.comments.strengths = @ (+) result.comments.strengths]

\* get_leader_feedback_data on one snapshot of the store: (data, comments)
get_leader_feedback_data(rater_table, rating_table, comment_table, leader_id) ==
    LET raw == raw_response_counts(rater_table, leader_id)
    IN  [data |-> data_dict(raw, rating_rows(rater_table, rating_table, leader_id)),
         comments |-> comments_dict(
                          comment_rows(rater_table, comment_table, leader_id),
                          hidden_groups(raw))]

(***************************************************************************)
(* report_generator.py: the PAPU-NANU categorisation.  An item summary     *)
(* keeps item_num, self, combined, gap and no_opp_count (the item text is  *)
(* static configuration); a gap of None is a summary without the key gap.  *)
(***************************************************************************)
\* HIGH_SCORE_THRESHOLD = 4.0, scaled by 100
HIGH_SCORE_THRESHOLD == 400

MIN_RESPONSES_FOR_REPORT == 5

\* SIGNIFICANT_GAP = 0.5, scaled by 100
SIGNIFICANT_GAP == 50

\* OVERALL_ITEMS = [46, 47]: the last two items
OVERALL_ITEMS == {NumItems - 1, NumItems}

PapuCategories ==
    <<"agreed_strengths", "good_news", "development_areas", "hidden_talents">>

\* the items of data['by_item'] left after "Skip overall effectiveness
\* items", in the order of the dict
regular_items_with_overall(data) ==
    SelectSeq([n \in 1..NumItems |-> n], LAMBDA i : i \in DOMAIN data.by_item)

regular_items(data) ==
    SelectSeq([n \in 1..NumItems |-> n],
              LAMBDA i : i \in DOMAIN data.by_item /\ i \notin OVERALL_ITEMS)

\* the items that get past "if self_score is None or combined is None"
papu_items(data) ==
    SelectSeq(regular_items(data),
              LAMBDA i : /\ "Self" \in DOMAIN data.by_item[i]
                         /\ "Combined" \in DOMAIN data.by_item[i])

\* item_info of an item; entry is item_scores, the item's dict of by_item
item_info(data, item_num) ==
    LET entry == data.by_item[item_num]
        no_opp_count == IF item_num \in DOMAIN data.no_opportunity
                        THEN data.no_opportunity[item_num].count ELSE 0
        keys == {"item_num", "self", "combined", "no_opp_count"}
                \cup (IF "Gap" \in DOMAIN entry THEN {"gap"} ELSE {})
    IN  [k \in keys |->
            CASE k = "item_num" -> item_num
              [] k = "self" -> entry["Self"]
              [] k = "combined" -> entry["Combined"]
              [] k = "gap" -> entry["Gap"]
              [] k = "no_opp_count" -> no_opp_count]

\* the quadrant with a gap of exactly SIGNIFICANT_GAP counted as significant
papu_category_inclusive(entry) ==
    LET combined == entry["Combined"]
        has_gap == "Gap" \in DOMAIN entry
    IN  IF combined >= HIGH_SCORE_THRESHOLD
        THEN IF has_gap /\ entry["Gap"] <= -SIGNIFICANT_GAP
             THEN "good_news"
             ELSE IF has_gap /\ entry["Gap"] >= SIGNIFICANT_GAP
             THEN "hidden_talents"
             ELSE "agreed_strengths"
        ELSE IF has_gap /\ entry["Gap"] >= SIGNIFICANT_GAP
             THEN "hidden_talents"
             ELSE "development_areas"

\* the quadrant with the last branch taken only for a gap that is not
\* significant
papu_category_without_else(entry) ==
    LET combined == entry["Combined"]
        has_gap == "Gap" \in DOMAIN entry
    IN  IF combined >= HIGH_SCORE_THRESHOLD
        THEN IF has_gap /\ entry["Gap"] < -SIGNIFICANT_GAP
             THEN "good_news"
             ELSE IF has_gap /\ entry["Gap"] > SIGNIFICANT_GAP
             THEN "hidden_talents"
             ELSE "agreed_strengths"
        ELSE IF has_gap /\ entry["Gap"] > SIGNIFICANT_GAP
             THEN "hidden_talents"
             ELSE IF has_gap /\ entry["Gap"] < -SIGNIFICANT_GAP
             THEN "none"
             ELSE "development_areas"

\* the quadrant decided on the gap alone when the gap is significant
papu_category_gap_first(entry) ==
    LET combined == entry["Combined"]
        has_gap == "Gap" \in DOMAIN entry
    IN  IF has_gap /\ entry["Gap"] < -SIGNIFICANT_GAP THEN "good_news"
        ELSE IF has_gap /\ entry["Gap"] > SIGNIFICANT_GAP THEN "hidden_talents"
        ELSE IF combined >= HIGH_SCORE_THRESHOLD THEN "agreed_strengths"
        ELSE "development_areas"

\* the quadrant an item is appended to: the if / elif / else on combined and gap
papu_category(entry) ==
    LET combined == entry["Combined"]
        has_gap == "Gap" \in DOMAIN entry
    IN  IF combined >= HIGH_SCORE_THRESHOLD
        THEN IF has_gap /\ entry["Gap"] < -SIGNIFICANT_GAP
             THEN "good_news"
             ELSE IF has_gap /\ entry["Gap"] > SIGNIFICANT_GAP
             THEN "hidden_talents"
             ELSE "agreed_strengths"
        ELSE IF has_gap /\ entry["Gap"] > SIGNIFICANT_GAP
             THEN "hidden_talents"
             ELSE "development_areas"

\* categories[cat] before the sort: the summaries appended, in item order
appended(data, cat) ==
    LET mine == SelectSeq(papu_items(data),
                          LAMBDA i : papu_category(data.by_item[i]) = cat)
    IN  [n \in 1..Len(mine) |-> item_info(data, mine[n])]

RECURSIVE sort_ascending(_, _)
\* the sort with the flag reverse ignored
sort_ascending(list, reverse) ==
    IF list = <<>> THEN <<>>
    ELSE LET sorted == sort_ascending(SubSeq(list, 1, Len(list) - 1), reverse)
             x == list[Len(list)]
             before == SelectSeq(sorted, LAMBDA y : y["combined"] <= x["combined"])
             after == SelectSeq(sorted, LAMBDA y : y["combined"] > x["combined"])
         IN  before \o <<x>> \o after

RECURSIVE sort_by_combined(_, _)
\* list.sort(key=lambda x: x['combined'], reverse=reverse): a stable sort,
\* summaries with equal keys keep their order, with reverse too
sort_by_combined(list, reverse) ==
    IF list = <<>> THEN <<>>
    ELSE LET sorted == sort_by_combined(SubSeq(list, 1, Len(list) - 1), reverse)
             x == list[Len(list)]
             first(y) == IF reverse THEN y["combined"] >= x["combined"]
                         ELSE y["combined"] <= x["combined"]
         IN  SelectSeq(sorted, first) \o <<x>>
             \o SelectSeq(sorted, LAMBDA y : ~first(y))

\* categorize_papu_nanu with the lists of the call before kept and extended
categorize_papu_nanu_accumulating(data) ==
    [cat \in {PapuCategories[n] : n \in 1..Len(PapuCategories)} |->
        sort_by_combined((IF categories = <<>> THEN <<>> ELSE categories[cat])
                             \o appended(data, cat),
                         cat \in {"agreed_strengths", "good_news"})]

\* categorize_papu_nanu(data): the four lists
categorize_papu_nanu(data) ==
    [cat \in {PapuCategories[n] : n \in 1..Len(PapuCategories)} |->
        sort_by_combined(appended(data, cat),
                         cat \in {"agreed_strengths", "good_news"})]

(***************************************************************************)
(* Inputs of the model                                                     *)
(***************************************************************************)
\* the leader whose raters the operations below work on
TheLeader == 1

\* a ratings dict with the same answer on every item
Uniform(v) == [i \in Items |-> v]

\* a ratings dict with one answer on the odd and one on the even items
Alternating(v, w) == [i \in Items |-> IF i % 2 = 1 THEN v ELSE w]

\* the (ratings, comments) pairs a form submission is drawn from; a comments
\* dict is the sequence of its (section, text) entries
Submissions ==
    {[ratings |-> Uniform("5"),
      comments |-> << <<"strengths", <<"o", "k">> >> >>],
     [ratings |-> Alternating("4", "NO"),
      comments |-> << <<DimensionNames[1], <<" ", "n", "o", " ">> >>,
                      <<"development", <<"m", " ", "d">> >> >>],
     [ratings |-> Alternating("NA", "2"),
      comments |-> << <<"strengths", <<" ", " ">> >> >>]}

(***************************************************************************)
(* The operations                                                          *)
(***************************************************************************)
Init ==
    /\ raters = {}
    /\ ratings = {}
    /\ comments = EmptyBag
    /\ next_rater_id = 1
    /\ pc = "idle"
    /\ result = <<>>
    /\ categories = <<>>
    /\ previous = <<>>
    /\ report = <<>>
    /\ sessions = <<>>
    /\ reader = <<>>

\* render_links_tab, "Quick Add Multiple Raters": the leader's raters are
\* created in one go, Self, Boss, Peers, DRs, Others in this order
QuickAddRaters ==
    /\ pc = "idle"
    /\ raters = {}
    /\ \E add_self \in 0..1, add_boss \in 0..1 :
       \E num_peers \in 0..MaxRaters, num_drs \in 0..MaxRaters,
          num_others \in 0..MaxRaters :
          LET first == next_rater_id
              total == add_self + add_boss + num_peers + num_drs + num_others
          IN  /\ total \in 1..MaxRaters
              /\ raters' =
                    add_rater(TheLeader, "Self", first, add_self)
                    \cup add_rater(TheLeader, "Boss", first + add_self, add_boss)
                    \cup add_rater(TheLeader, "Peers",
                                   first + add_self + add_boss, num_peers)
                    \cup add_rater(TheLeader, "DRs",
                                   first + add_self + add_boss + num_peers, num_drs)
                    \cup add_rater(TheLeader, "Others",
                                   first + add_self + add_boss + num_peers + num_drs,
                                   num_others)
              /\ next_rater_id' = first + total
    /\ UNCHANGED <<ratings, comments, pc, result, report_vars, conc_vars>>

\* submit_feedback, reached from the feedback form of a rater who is not yet
\* completed: submit_ratings, submit_comments, mark_rater_complete
SubmitFeedback ==
    /\ pc = "idle"
    /\ \E r \in raters, s \in Submissions :
          /\ ~r.completed
          /\ ratings' = submit_ratings(ratings, r.id, s.ratings)
          /\ comments' = submit_comments(comments, r.id, s.comments)
          /\ raters' = mark_rater_complete(raters, r.id)
    /\ UNCHANGED <<next_rater_id, pc, result, report_vars, conc_vars>>

\* a caller (a report, the dashboard) runs get_leader_feedback_data
GetLeaderFeedbackData ==
    /\ pc = "idle"
    /\ result' = get_leader_feedback_data(raters, ratings, comments, TheLeader)
    /\ pc' = "returned"
    /\ UNCHANGED <<raters, ratings, comments, next_rater_id, report_vars, conc_vars>>

\* the caller is done with the result
Return ==
    /\ pc = "returned"
    /\ pc' = "idle"
    /\ result' = <<>>
    /\ UNCHANGED <<raters, ratings, comments, next_rater_id, report_vars, conc_vars>>

Next ==
    \/ QuickAddRaters
    \/ SubmitFeedback
    \/ GetLeaderFeedbackData
    \/ Return

Spec == Init /\ [][Next]_vars

(***************************************************************************)
(* categorize_papu_nanu on its own: the per-item aggregates are drawn from *)
(* a set of items that covers every branch and both thresholds, one item   *)
(* for the odd and one for the even item numbers.                          *)
(***************************************************************************)
\* the group averages of an item; 0 stands for no average
Averages(self_score, boss, others) ==
    LET given == [Self |-> self_score, Boss |-> boss, Others |-> others]
    IN  [g \in {h \in DOMAIN given : given[h] # 0} |-> given[g]]

\* the items of by_item the categorisation is run on: the aggregates of the
\* averages below, and the same items without the key Gap
ItemProfiles ==
    LET aggregated ==
            {with_combined(Averages(self_score, boss, others), <<"Self", "Boss">>) :
                self_score \in {0, 200, 300, 400, 500},
                boss \in {0, 300, 400, 500},
                others \in {0, 400}}
        without_gap ==
            {[k \in DOMAIN item \ {"Gap"} |-> item[k]] :
                item \in {e \in aggregated : "Gap" \in DOMAIN e}}
    IN  aggregated \cup without_gap

\* a data dict with the given items on the odd and on the even item numbers
\* and 'no opportunity' responses on the items no_opp
PapuData(odd, even, no_opp) ==
    LET items == [i \in Items |-> IF i % 2 = 1 THEN odd ELSE even]
    IN  [by_item |-> items,
         by_dimension |-> by_dimension(items, <<"Self", "Boss">>),
         overall |-> [i \in OverallItems |-> items[i]],
         no_opportunity |->
            [i \in no_opp |-> [count |-> 1, groups |-> SetToBag({"Boss"})]]]

PapuInit ==
    /\ raters = {}
    /\ ratings = {}
    /\ comments = EmptyBag
    /\ next_rater_id = 1
    /\ pc = "returned"
    /\ \E odd \in ItemProfiles, even \in ItemProfiles, no_opp \in {{}, {1}} :
          result = [data |-> PapuData(odd, even, no_opp),
                    comments |-> comments_dict(EmptyBag, <<>>)]
    /\ categories = <<>>
    /\ previous = <<>>
    /\ report = <<>>
    /\ sessions = <<>>
    /\ reader = <<>>

\* generate_report: categories = categorize_papu_nanu(data); the call assigns
\* nothing in data
CategorizePapuNanu ==
    /\ pc = "returned"
    /\ categories' = categorize_papu_nanu(result.data)
    /\ pc' = "categorized"
    /\ UNCHANGED <<raters, ratings, comments, next_rater_id, result, previous, report,
                   conc_vars>>

\* a second call on the same data
CategorizeAgain ==
    /\ pc = "categorized"
    /\ previous' = categories
    /\ categories' = categorize_papu_nanu(result.data)
    /\ pc' = "recategorized"
    /\ UNCHANGED <<raters, ratings, comments, next_rater_id, result, report, conc_vars>>

PapuNext ==
    \/ CategorizePapuNanu
    \/ CategorizeAgain

PapuSpec == PapuInit /\ [][PapuNext]_vars

(***************************************************************************)
(* The report pipeline: the store is filled as in Spec, a caller           *)
(* aggregates, and then either aggregates once more with no store          *)
(* operation in between, or categorises the aggregates for the report.     *)
(***************************************************************************)
\* a second get_leader_feedback_data right after the first
GetLeaderFeedbackDataAgain ==
    /\ pc = "returned"
    /\ previous' = result
    /\ result' = get_leader_feedback_data(raters, ratings, comments, TheLeader)
    /\ pc' = "repeated"
    /\ UNCHANGED <<raters, ratings, comments, next_rater_id, categories, report,
                   conc_vars>>

ReportNext ==
    \/ QuickAddRaters
    \/ SubmitFeedback
    \/ GetLeaderFeedbackData
    \/ Return
    \/ GetLeaderFeedbackDataAgain
    \/ CategorizePapuNanu

ReportSpec == Init /\ [][ReportNext]_vars

(***************************************************************************)
(* Concurrent use.  Every database method opens its own connection and     *)
(* commits on its own, so submit_feedback is three transactions and        *)
(* get_leader_feedback_data is three queries; the steps of the browser     *)
(* sessions and of a reader interleave freely.  The store starts with two  *)
(* leaders: the first has a Self and two Peers who have completed and a    *)
(* Peer, a Boss and a DR who are pending, the second has one pending       *)
(* rater.                                                                  *)
(***************************************************************************)
OtherLeader == 2

SessionIds == {1, 2}

\* the raters of the store the concurrent runs start from
InitialRaters ==
    add_rater(TheLeader, "Self", 1, 1) \cup add_rater(TheLeader, "Boss", 2, 1)
    \cup add_rater(TheLeader, "Peers", 3, 3) \cup add_rater(OtherLeader, "Peers", 6, 1)
    \cup add_rater(TheLeader, "DRs", 7, 1)

\* the feedback each rater who completed before the runs has submitted
InitialFeedback ==
    [id \in {1, 3, 4} |->
        IF id = 3
        THEN [ratings |-> Alternating("4", "NO"),
              comments |-> << <<"development", <<"m", " ", "d">> >> >>]
        ELSE [ratings |-> Uniform("5"),
              comments |-> << <<"strengths", <<"o", "k">> >> >>]]

RECURSIVE submitted(_, _)
\* the store after submit_feedback of the raters ids, one after the other
submitted(store, ids) ==
    IF ids = {} THEN store
    ELSE LET id == CHOOSE x \in ids : TRUE
             after ==
                [raters |-> mark_rater_complete(store.raters, id),
                 ratings |-> submit_ratings(store.ratings, id,
                                            InitialFeedback[id].ratings),
                 comments |-> submit_comments(store.comments, id,
                                              InitialFeedback[id].comments)]
         IN  submitted(after, ids \ {id})

ConcInit ==
    LET store == submitted([raters |-> InitialRaters, ratings |-> {},
                            comments |-> EmptyBag], DOMAIN InitialFeedback)
    IN  /\ raters = store.raters
        /\ ratings = store.ratings
        /\ comments = store.comments
        /\ next_rater_id = Cardinality(InitialRaters) + 1
        /\ pc = "idle"
        /\ result = <<>>
        /\ categories = <<>>
        /\ previous = <<>>
        /\ report = <<>>
        /\ sessions = [s \in SessionIds |-> [pc |-> "closed"]]
        /\ reader = <<>>

\* app.py main: a browser session opens a rater's link; the form is rendered
\* only if the rater is not completed at that moment
OpenForm(s) ==
    /\ sessions[s].pc = "closed"
    /\ \E r \in raters :
          /\ ~r.completed
          /\ sessions' = [sessions EXCEPT ![s] = [pc |-> "form", rater_id |-> r.id]]
    /\ UNCHANGED <<raters, ratings, comments, next_rater_id, pc, result,
                   report_vars, reader>>

\* the form is submitted: submit_feedback begins, submit_ratings commits
SubmitRatings(s) ==
    /\ sessions[s].pc = "form"
    /\ \E form \in Submissions :
          /\ ratings' = submit_ratings(ratings, sessions[s].rater_id, form.ratings)
          /\ sessions' = [sessions EXCEPT ![s] =
                            [pc |-> "ratings_submitted",
                             rater_id |-> sessions[s].rater_id, form |-> form]]
    /\ UNCHANGED <<raters, comments, next_rater_id, pc, result, report_vars, reader>>

\* submit_feedback goes on: submit_comments commits
SubmitComments(s) ==
    /\ sessions[s].pc = "ratings_submitted"
    /\ comments' = submit_comments(comments, sessions[s].rater_id,
                                   sessions[s].form.comments)
    /\ sessions' = [sessions EXCEPT ![s].pc = "comments_submitted"]
    /\ UNCHANGED <<raters, ratings, next_rater_id, pc, result, report_vars, reader>>

\* submit_feedback ends: mark_rater_complete commits
MarkRaterComplete(s) ==
    /\ sessions[s].pc = "comments_submitted"
    /\ raters' = mark_rater_complete(raters, sessions[s].rater_id)
    /\ sessions' = [sessions EXCEPT ![s].pc = "submitted"]
    /\ UNCHANGED <<ratings, comments, next_rater_id, pc, result, report_vars, reader>>

\* get_leader_feedback_data begins: the counts query
CountsQuery ==
    /\ pc = "idle"
    /\ reader' = [raw |-> raw_response_counts(raters, TheLeader)]
    /\ pc' = "counts_read"
    /\ UNCHANGED <<raters, ratings, comments, next_rater_id, result, report_vars,
                   sessions>>

\* the ratings query
RatingsQuery ==
    /\ pc = "counts_read"
    /\ reader' = [raw |-> reader.raw,
                  rows |-> rating_rows(raters, ratings, TheLeader)]
    /\ pc' = "ratings_read"
    /\ UNCHANGED <<raters, ratings, comments, next_rater_id, result, report_vars,
                   sessions>>

\* the comments query, and the return of (data, comments)
CommentsQuery ==
    /\ pc = "ratings_read"
    /\ result' = [data |-> data_dict(reader.raw, reader.rows),
                  comments |-> comments_dict(
                                   comment_rows(raters, comments, TheLeader),
                                   hidden_groups(reader.raw))]
    /\ pc' = "returned"
    /\ UNCHANGED <<raters, ratings, comments, next_rater_id, report_vars, conc_vars>>

ConcNext ==
    \/ \E s \in SessionIds : OpenForm(s)
    \/ \E s \in SessionIds : SubmitRatings(s)
    \/ \E s \in SessionIds : SubmitComments(s)
    \/ \E s \in SessionIds : MarkRaterComplete(s)
    \/ CountsQuery
    \/ RatingsQuery
    \/ CommentsQuery

ConcSpec == ConcInit /\ [][ConcNext]_vars

(***************************************************************************)
(* get_leader_feedback_data on two stores: the store the sessions have     *)
(* written, with its pending raters, their stored rows and the other       *)
(* leader's data, and the part of it that belongs to the completed raters  *)
(* of the leader.                                                          *)
(***************************************************************************)
\* the rows of the three tables that belong to the completed raters of the
\* leader
completed_part(rater_table, rating_table, comment_table, leader_id) ==
    LET done == {r \in rater_table : r.leader_id = leader_id /\ r.completed}
        ids == {r.id : r \in done}
    IN  [raters |-> done,
         ratings |-> {q \in rating_table : q.rater_id \in ids},
         comments |-> FilterBag(comment_table,
                                {c \in DOMAIN comment_table : c.rater_id \in ids})]

\* one run on the store and one on its completed part
CompareStores ==
    /\ pc = "idle"
    /\ result' = get_leader_feedback_data(raters, ratings, comments, TheLeader)
    /\ LET part == completed_part(raters, ratings, comments, TheLeader)
       IN  previous' = get_leader_feedback_data(part.raters, part.ratings,
                                                part.comments, TheLeader)
    /\ pc' = "compared"
    /\ UNCHANGED <<raters, ratings, comments, next_rater_id, categories, report,
                   conc_vars>>

StoreNext ==
    \/ \E s \in SessionIds : OpenForm(s)
    \/ \E s \in SessionIds : SubmitRatings(s)
    \/ \E s \in SessionIds : SubmitComments(s)
    \/ \E s \in SessionIds : MarkRaterComplete(s)
    \/ CompareStores

StoreSpec == ConcInit /\ [][StoreNext]_vars

(***************************************************************************)
(* Stored values outside the answer scale.  submit_ratings stores          *)
(* int(score) for every score that is not 'NO' or 'NA', whatever its       *)
(* value, so a caller of submit_feedback can store a 0 or a 7.             *)
(***************************************************************************)
\* the (ratings, comments) a caller of submit_feedback passes: the form's
\* submissions, and two with scores outside 1..5
ApiSubmissions ==
    Submissions
    \cup {[ratings |-> Uniform("7"), comments |-> <<>>],
          [ratings |-> Alternating("0", "3"), comments |-> <<>>]}

\* submit_feedback(rater_id, ratings, comments) for a pending rater
SubmitFeedbackCall ==
    /\ pc = "idle"
    /\ \E r \in raters, s \in ApiSubmissions :
          /\ ~r.completed
          /\ ratings' = submit_ratings(ratings, r.id, s.ratings)
          /\ comments' = submit_comments(comments, r.id, s.comments)
          /\ raters' = mark_rater_complete(raters, r.id)
    /\ UNCHANGED <<next_rater_id, pc, result, report_vars, conc_vars>>

IntegrityNext ==
    \/ SubmitFeedbackCall
    \/ GetLeaderFeedbackData
    \/ Return

IntegritySpec == ConcInit /\ [][IntegrityNext]_vars

(***************************************************************************)
(* The methods of the store called one by one, in any order: add_rater,    *)
(* submit_ratings (with dicts that hold all items or some), submit_comments,*)
(* mark_rater_complete, delete_rater, get_leader_feedback_data.            *)
(***************************************************************************)
\* the ratings dicts of the calls of submit_ratings
RatingSheets ==
    {Uniform("5"),
     [i \in {1} |-> "NO"],
     [i \in Items \ {1} |-> "1"],
     [i \in {1, NumItems} |-> "NA"]}

\* the comments dicts of the calls of submit_comments
CommentDicts ==
    {<< <<"strengths", <<"o", "k">> >> >>,
     << <<DimensionNames[1], <<" ", "n", "o", " ">> >>, <<"development", <<" ">> >> >>}

AddRater ==
    /\ pc = "idle"
    /\ next_rater_id <= MaxApiRaters
    /\ \E relationship \in {"Self", "Peers"} :
          raters' = raters \cup add_rater(TheLeader, relationship, next_rater_id, 1)
    /\ next_rater_id' = next_rater_id + 1
    /\ UNCHANGED <<ratings, comments, pc, result, report_vars, conc_vars>>

SubmitRatingsCall ==
    /\ pc = "idle"
    /\ \E r \in raters, sheet \in RatingSheets :
          ratings' = submit_ratings(ratings, r.id, sheet)
    /\ UNCHANGED <<raters, comments, next_rater_id, pc, result, report_vars,
                   conc_vars>>

SubmitCommentsCall ==
    /\ pc = "idle"
    /\ BagCardinality(comments) < MaxComments
    /\ \E r \in raters, entries \in CommentDicts :
          comments' = submit_comments(comments, r.id, entries)
    /\ UNCHANGED <<raters, ratings, next_rater_id, pc, result, report_vars,
                   conc_vars>>

MarkRaterCompleteCall ==
    /\ pc = "idle"
    /\ \E r \in raters :
          /\ ~r.completed
          /\ raters' = mark_rater_complete(raters, r.id)
    /\ UNCHANGED <<ratings, comments, next_rater_id, pc, result, report_vars,
                   conc_vars>>

\* the delete buttons of the dashboard and of the leader portal
DeleteRaterCall ==
    /\ pc = "idle"
    /\ \E r \in raters :
          LET after == delete_rater(raters, ratings, comments, r.id)
          IN  /\ raters' = after.raters
              /\ ratings' = after.ratings
              /\ comments' = after.comments
    /\ UNCHANGED <<next_rater_id, pc, result, report_vars, conc_vars>>

ApiNext ==
    \/ AddRater
    \/ SubmitRatingsCall
    \/ SubmitCommentsCall
    \/ MarkRaterCompleteCall
    \/ DeleteRaterCall
    \/ GetLeaderFeedbackData
    \/ Return

ApiSpec == Init /\ [][ApiNext]_vars

(***************************************************************************)
(* A leader with a Self rater, two Peers, four DRs and three Others, who   *)
(* submit their forms in any order; the answers cover the whole scale,     *)
(* 'no opportunity' and 'not applicable'.                                  *)
(***************************************************************************)
ScenarioRaters ==
    add_rater(TheLeader, "Self", 1, 1) \cup add_rater(TheLeader, "Peers", 2, 2)
    \cup add_rater(TheLeader, "DRs", 4, 4) \cup add_rater(TheLeader, "Others", 8, 3)

\* the form each rater submits
ScenarioFeedback ==
    [id \in {r.id : r \in ScenarioRaters} |->
        [ratings |-> <<Uniform("5"),
                       Uniform("1"), Alternating("NO", "1"),
                       Uniform("5"), Alternating("1", "5"),
                       Alternating("NA", "3"), Uniform("2"),
                       Uniform("1"), Uniform("4"), Alternating("5", "NO")>>[id],
         comments |-> IF id % 2 = 0
                      THEN << <<"strengths", <<"o", "k">> >> >>
                      ELSE <<>>]]

ScenarioInit ==
    /\ raters = ScenarioRaters
    /\ ratings = {}
    /\ comments = EmptyBag
    /\ next_rater_id = Cardinality(ScenarioRaters) + 1
    /\ pc = "idle"
    /\ result = <<>>
    /\ categories = <<>>
    /\ previous = <<>>
    /\ report = <<>>
    /\ sessions = <<>>
    /\ reader = <<>>

\* submit_feedback from the form of a pending rater
SubmitScenarioFeedback ==
    /\ pc = "idle"
    /\ \E r \in raters :
          /\ ~r.completed
          /\ ratings' = submit_ratings(ratings, r.id, ScenarioFeedback[r.id].ratings)
          /\ comments' = submit_comments(comments, r.id,
                                         ScenarioFeedback[r.id].comments)
          /\ raters' = mark_rater_complete(raters, r.id)
    /\ UNCHANGED <<next_rater_id, pc, result, report_vars, conc_vars>>

ScenarioNext ==
    \/ SubmitScenarioFeedback
    \/ GetLeaderFeedbackData
    \/ Return

ScenarioSpec == ScenarioInit /\ [][ScenarioNext]_vars

(***************************************************************************)
(* The paths that generate a report, on the leader of the scenario above:  *)
(* the Reports tab of the dashboard (one leader, or the batch) and         *)
(* generate_all_reports.                                                   *)
(***************************************************************************)
\* leader['completed_raters'] of get_all_leaders
completed_raters(rater_table, leader_id) ==
    Cardinality({r \in rater_table : r.leader_id = leader_id /\ r.completed})

\* has_self of render_reports_tab
has_self(rater_table, leader_id) ==
    \E r \in rater_table : /\ r.leader_id = leader_id
                            /\ r.relationship = "Self"
                            /\ r.completed

\* render_reports_tab, a Generate button: of a leader ready for the Full 360
\* with the report type selected, or of a leader ready for the
\* Self-Assessment only
GenerateFromReportsTab ==
    /\ pc = "idle"
    /\ IF completed_raters(raters, TheLeader) >= MIN_RESPONSES_FOR_REPORT
       THEN \E report_type \in
                  (IF has_self(raters, TheLeader)
                   THEN {"Full 360", "Self-Assessment", "Progress Report"}
                   ELSE {"Full 360"}) :
               report' = [leader_id |-> TheLeader, report_type |-> report_type]
       ELSE /\ has_self(raters, TheLeader)
            /\ report' = [leader_id |-> TheLeader, report_type |-> "Self-Assessment"]
    /\ result' = get_leader_feedback_data(raters, ratings, comments, TheLeader)
    /\ pc' = "generated"
    /\ UNCHANGED <<raters, ratings, comments, next_rater_id, categories, previous,
                   conc_vars>>

\* render_reports_tab, "Generate All Full 360 Reports"
BatchGenerate ==
    /\ pc = "idle"
    /\ completed_raters(raters, TheLeader) >= MIN_RESPONSES_FOR_REPORT
    /\ report' = [leader_id |-> TheLeader, report_type |-> "Full 360"]
    /\ result' = get_leader_feedback_data(raters, ratings, comments, TheLeader)
    /\ pc' = "batch_generated"
    /\ UNCHANGED <<raters, ratings, comments, next_rater_id, categories, previous,
                   conc_vars>>

\* generate_all_reports(db): the leaders with completed_raters >= 5
GenerateAllReports ==
    /\ pc = "idle"
    /\ completed_raters(raters, TheLeader) >= 5
    /\ report' = [leader_id |-> TheLeader, report_type |-> "Full 360"]
    /\ result' = get_leader_feedback_data(raters, ratings, comments, TheLeader)
    /\ pc' = "all_generated"
    /\ UNCHANGED <<raters, ratings, comments, next_rater_id, categories, previous,
                   conc_vars>>

GateNext ==
    \/ SubmitScenarioFeedback
    \/ GenerateFromReportsTab
    \/ BatchGenerate
    \/ GenerateAllReports

GateSpec == ScenarioInit /\ [][GateNext]_vars

(***************************************************************************)
(* First start: load_demo_data_if_empty fills the new database with a demo *)
(* leader whose raters have all submitted; afterwards a rater can be added *)
(* and can submit the feedback form.                                       *)
(***************************************************************************)
\* range(1, 43): the items the demo ratings are made for, which are all but
\* the last items of the last dimension and the two overall items
DemoItems == 1..(NumItems - 3)

\* the raters of a demo leader: Self 1, Boss 1, Peers 4, DRs 5, Others 2
DemoRaters ==
    add_rater(TheLeader, "Self", 1, 1) \cup add_rater(TheLeader, "Boss", 2, 1)
    \cup add_rater(TheLeader, "Peers", 3, 4) \cup add_rater(TheLeader, "DRs", 7, 5)
    \cup add_rater(TheLeader, "Others", 12, 2)

\* the ratings dicts a demo rater can get: a score on every demo item, or
\* 'NO' on them for a rater of Others
DemoSheets(relationship) ==
    {[i \in DemoItems |-> "4"]}
    \cup (IF relationship = "Others" THEN {[i \in DemoItems |-> "NO"]}
          ELSE {[i \in DemoItems |-> "5"]})

RECURSIVE demo_submitted(_, _, _)
\* the store after db.submit_feedback(rater['id'], ratings, comments) for the
\* raters todo, with the ratings chosen for each
demo_submitted(store, todo, chosen) ==
    IF todo = {} THEN store
    ELSE LET r == CHOOSE x \in todo : TRUE
             after ==
                [raters |-> mark_rater_complete(store.raters, r.id),
                 ratings |-> submit_ratings(store.ratings, r.id, chosen[r.id]),
                 comments |-> submit_comments(
                                  store.comments, r.id,
                                  IF r.relationship = "Self" THEN <<>>
                                  ELSE << <<"strengths", <<"o", "k">> >> >>)]
         IN  demo_submitted(after, todo \ {r}, chosen)

\* load_demo_data_if_empty on a database without leaders
LoadDemoData ==
    /\ pc = "idle"
    /\ next_rater_id = 1
    /\ \E uses_five \in SUBSET {r.id : r \in DemoRaters} :
          LET chosen == [id \in {r.id : r \in DemoRaters} |->
                            LET r == CHOOSE x \in DemoRaters : x.id = id
                                sheets == DemoSheets(r.relationship)
                            IN  IF id \in uses_five
                                THEN CHOOSE sheet \in sheets : sheet[1] # "4"
                                ELSE CHOOSE sheet \in sheets : sheet[1] = "4"]
              store == demo_submitted([raters |-> DemoRaters, ratings |-> {},
                                       comments |-> EmptyBag], DemoRaters, chosen)
          IN  /\ raters' = store.raters
              /\ ratings' = store.ratings
              /\ comments' = store.comments
    /\ next_rater_id' = Cardinality(DemoRaters) + 1
    /\ UNCHANGED <<pc, result, report_vars, conc_vars>>

\* render_links_tab, "Add Single Rater"
AddSingleRater ==
    /\ pc = "idle"
    /\ next_rater_id > Cardinality(DemoRaters)
    /\ next_rater_id <= Cardinality(DemoRaters) + MaxExtraRaters
    /\ \E relationship \in {"Peers", "Others"} :
          raters' = raters \cup add_rater(TheLeader, relationship, next_rater_id, 1)
    /\ next_rater_id' = next_rater_id + 1
    /\ UNCHANGED <<ratings, comments, pc, result, report_vars, conc_vars>>

\* the answers of a form when Submit is clicked (_collect_current_answers):
\* the items with a value selected, each "1".."5", "N/A" or "N/O"
FormAnswers ==
    {[i \in Items |-> "5"],
     [i \in Items |-> IF i % 2 = 1 THEN "N/O" ELSE "2"],
     [i \in Items \ {NumItems} |-> "N/A"],
     [i \in {1} |-> "3"],
     <<>>}

\* processed_ratings of the submit handler
processed_ratings(answers) ==
    [i \in DOMAIN answers |->
        IF answers[i] = "N/O" THEN "NO"
        ELSE IF answers[i] = "N/A" THEN "NA" ELSE answers[i]]

\* the submit handler of the form of a pending rater: with an item missing
\* nothing is submitted (the draft is saved, which touches none of the
\* three tables), otherwise submit_feedback is called
SubmitForm ==
    /\ pc = "idle"
    /\ \E r \in raters, answers \in FormAnswers :
          /\ ~r.completed
          /\ LET missing == {i \in Items : i \notin DOMAIN answers}
             IN  IF missing # {}
                 THEN UNCHANGED <<raters, ratings, comments>>
                 ELSE /\ ratings' = submit_ratings(ratings, r.id,
                                                   processed_ratings(answers))
                      /\ comments' = submit_comments(comments, r.id, <<>>)
                      /\ raters' = mark_rater_complete(raters, r.id)
    /\ UNCHANGED <<next_rater_id, pc, result, report_vars, conc_vars>>

DemoNext ==
    \/ LoadDemoData
    \/ AddSingleRater
    \/ SubmitForm

DemoSpec == Init /\ [][DemoNext]_vars

(***************************************************************************)
(* What the properties below speak of.  The store does not change while a  *)
(* result is held (pc = "returned"), so a property of the result is stated *)
(* against the store it was computed from.                                 *)
(***************************************************************************)
Returned == pc = "returned"

Categories == {"Self", "Boss", "Peers", "DRs", "Others"}

\* the completed raters of the leader, and their number per raw category
CompletedRaters == {r \in raters : r.leader_id = TheLeader /\ r.completed}

RawCount(c) == Cardinality({r \in CompletedRaters : r.relationship = c})

\* a category that is neither exempt nor backed by enough raters of its own
BelowThreshold(c) ==
    c \in {"Peers", "DRs", "Others"} /\ RawCount(c) \in 1..(ANONYMITY_THRESHOLD - 1)

\* the raw-to-effective mapping: a category below the threshold is reported
\* as Others, Self and Boss are never remapped
EffectiveCategory(c) == IF BelowThreshold(c) THEN "Others" ELSE c

\* the completed raters mapped to a label
Backing(label) ==
    {r \in CompletedRaters : EffectiveCategory(r.relationship) = label}

\* the ids of the completed raters mapped to each label
BackerIds == [label \in Categories |-> {r.id : r \in Backing(label)}]

\* the stored rating rows of one item
ItemRows(item_num) == {row \in ratings : row.item_number = item_num}

\* of the rows of an item, those given by the raters `ids`
RowsOf(rows, ids) == {row \in rows : row.rater_id \in ids}

\* the labels under which the result reports a score or a comment
ScoreLabels ==
    UNION {DOMAIN result.data.by_item[i] : i \in Items} \ {"Combined", "Gap"}

ListGroups(list) == {entry.group : entry \in DOMAIN list}

CommentLabels ==
    ListGroups(result.comments.strengths)
    \cup ListGroups(result.comments.development)
    \cup UNION {ListGroups(result.comments.by_section[sec]) :
                   sec \in DOMAIN result.comments.by_section}

\* v (scaled by 100) is total / n rounded to `unit` hundredths (10: one
\* decimal, 1: two decimals), whichever way a tie is broken; total is a sum
\* of values scaled by 100
IsRoundedMean(v, total, n, unit) ==
    /\ v % unit = 0
    /\ 2 * (v * n - total) <= unit * n
    /\ 2 * (total - v * n) <= unit * n

(***************************************************************************)
(* C1: every label other than Self and Boss under which a per-item score   *)
(* or a comment is reported is backed by at least ANONYMITY_THRESHOLD      *)
(* completed raters mapped to that label.                                  *)
(***************************************************************************)
C1_ReportedLabelsAreBacked ==
    Returned =>
        \A label \in (ScoreLabels \cup CommentLabels) \ {"Self", "Boss"} :
            Cardinality(Backing(label)) >= ANONYMITY_THRESHOLD

(***************************************************************************)
(* C2: Peers, DRs and Others are in visible_groups exactly when their own  *)
(* raw count of completed raters reaches the threshold; Self and Boss are  *)
(* always in visible_groups.                                               *)
(***************************************************************************)
C2_VisibleIffThreshold ==
    Returned =>
        /\ \A c \in {"Peers", "DRs", "Others"} :
              InList(c, result.data.visible_groups)
                  <=> RawCount(c) >= ANONYMITY_THRESHOLD
        /\ InList("Self", result.data.visible_groups)
        /\ InList("Boss", result.data.visible_groups)

C2_Witness ==
    /\ Returned
    /\ RawCount("Peers") = ANONYMITY_THRESHOLD
    /\ InList("Peers", result.data.visible_groups)
    /\ RawCount("Self") = 0
    /\ \E c \in {"DRs", "Others"} :
          RawCount(c) > 0 /\ ~InList(c, result.data.visible_groups)

C4_CountConservation ==
    Returned =>
        LET rc == result.data.response_counts
            raw == result.data.raw_response_counts
        IN  /\ (\A r \in CompletedRaters : r.relationship \in Categories)
            /\ SumOver(DOMAIN rc, rc) = SumOver(DOMAIN raw, raw)
            /\ SumOver(DOMAIN rc, rc) = Cardinality(CompletedRaters)

C4_Witness ==
    /\ Returned
    /\ BelowThreshold("Peers")
    /\ BelowThreshold("Others")
    /\ Cardinality(CompletedRaters) >= ANONYMITY_THRESHOLD
    /\ result.data.response_counts["Others"] = RawCount("Peers") + RawCount("Others")

(***************************************************************************)
(* C5: every stored comment of a completed rater has exactly one entry in  *)
(* the comments output, in the list of its section, with the stored text   *)
(* and the effective category of its rater; no comment is dropped, and no  *)
(* entry is listed under the label of a category that is below the         *)
(* threshold.                                                              *)
(***************************************************************************)
\* the output list of a section
ListFor(section) ==
    IF section = "strengths" THEN result.comments.strengths
    ELSE IF section = "development" THEN result.comments.development
    ELSE Get(result.comments.by_section, section, EmptyBag)

\* how many stored comments of a section carry a text and come from a
\* completed rater mapped to a label
StoredComments(section, text, label) ==
    LET backers == {r.id : r \in Backing(label)}
        rows == {c \in DOMAIN comments :
                    /\ c.section = section
                    /\ c.comment_text = text
                    /\ c.rater_id \in backers}
    IN  SumOver(rows, comments)

\* how many entries of the section's list carry the text under the label
ListedComments(section, text, label) ==
    CopiesIn([group |-> label, text |-> text], ListFor(section))

\* the entries of each list are the stored comments of that section, each
\* once, under the effective category of its rater
CommentsCarriedOver ==
    LET sections == {c.section : c \in DOMAIN comments}
                    \cup DOMAIN result.comments.by_section
                    \cup {"strengths", "development"}
        texts == {c.comment_text : c \in DOMAIN comments}
                 \cup UNION {{entry.text : entry \in DOMAIN ListFor(sec)} :
                                sec \in sections}
    IN  /\ DOMAIN result.comments.by_section \cap {"strengths", "development"} = {}
        /\ \A sec \in sections : IsABag(ListFor(sec))
        /\ \A sec \in sections, text \in texts, label \in Categories \cup CommentLabels :
              ListedComments(sec, text, label) = StoredComments(sec, text, label)

C5_CommentsAttributed ==
    Returned =>
        /\ CommentsCarriedOver
        /\ \A label \in CommentLabels : ~BelowThreshold(label)

\* the part of C5 that does not concern the label of Others
C5_CarriedOver == Returned => CommentsCarriedOver

(***************************************************************************)
(* C6: by_item[item][category] is the mean, rounded to one decimal, of the *)
(* numeric scores given on the item by the completed raters mapped to the  *)
(* category, 'no opportunity' and 'not applicable' answers excluded; with  *)
(* no numeric score the category key is absent.                            *)
(***************************************************************************)
NumericRows(rows, ids) ==
    {row \in RowsOf(rows, ids) : ~row.no_opportunity /\ ~row.not_applicable}

C6_ItemAverages ==
    Returned =>
        LET ids == BackerIds
            ItemAverages(i, rows) ==
                /\ DOMAIN result.data.by_item[i]
                      \subseteq Categories \cup {"Combined", "Gap"}
                /\ \A label \in Categories :
                      LET scored == NumericRows(rows, ids[label])
                      IN  IF scored = {}
                          THEN label \notin DOMAIN result.data.by_item[i]
                          ELSE /\ label \in DOMAIN result.data.by_item[i]
                               /\ IsRoundedMean(
                                      result.data.by_item[i][label],
                                      100 * SumOver(scored,
                                                    [row \in scored |-> row.score]),
                                      Cardinality(scored), 10)
        IN  \A i \in Items : ItemAverages(i, ItemRows(i))

C6_Witness ==
    /\ Returned
    /\ \E i \in Items, label \in {"Peers", "DRs", "Others"} :
          /\ Cardinality(NumericRows(ItemRows(i), BackerIds[label])) = 2
          /\ \E row \in RowsOf(ItemRows(i), BackerIds[label]) : row.no_opportunity
          /\ result.data.by_item[i][label] % 100 # 0
    /\ \E i \in Items, label \in Categories :
          /\ RowsOf(ItemRows(i), BackerIds[label]) # {}
          /\ NumericRows(ItemRows(i), BackerIds[label]) = {}
          /\ label \notin DOMAIN result.data.by_item[i]

(***************************************************************************)
(* C7: no_opportunity[item].count is the number of 'no opportunity'        *)
(* responses on the item by completed raters, groups names the effective   *)
(* category of each of them, and an item without such a response has no    *)
(* entry; a 'not applicable' response adds to no count.                    *)
(***************************************************************************)
NoOpportunityRows(rows, ids) ==
    {row \in RowsOf(rows, ids) : row.no_opportunity}

C7_NoOpportunity ==
    Returned =>
        LET ids == BackerIds
            NoOpportunity(i, rows) ==
                LET given == [c \in Categories |->
                                 Cardinality(NoOpportunityRows(rows, ids[c]))]
                    total == SumOver(Categories, given)
                IN  IF total = 0
                    THEN i \notin DOMAIN result.data.no_opportunity
                    ELSE /\ i \in DOMAIN result.data.no_opportunity
                         /\ result.data.no_opportunity[i].count = total
                         /\ IsABag(result.data.no_opportunity[i].groups)
                         /\ BagCardinality(result.data.no_opportunity[i].groups)
                               = total
                         /\ \A c \in Categories
                                   \cup DOMAIN result.data.no_opportunity[i].groups :
                               CopiesIn(c, result.data.no_opportunity[i].groups)
                                   = Get(given, c, 0)
        IN  \A i \in Items : NoOpportunity(i, ItemRows(i))

C7_Witness ==
    /\ Returned
    /\ \E i \in Items :
          /\ i \in DOMAIN result.data.no_opportunity
          /\ result.data.no_opportunity[i].count = 2
          /\ BelowThreshold("Peers")
          /\ CopiesIn("Others", result.data.no_opportunity[i].groups) >= 1
    /\ \E i \in Items :
          /\ i \notin DOMAIN result.data.no_opportunity
          /\ \E row \in ratings :
                /\ row.item_number = i
                /\ row.not_applicable
                /\ \E r \in CompletedRaters : r.id = row.rater_id

(***************************************************************************)
(* C8 as stated: Combined is the mean, rounded to two decimals, of the     *)
(* per-item scores of exactly those categories among Boss, Peers, DRs,     *)
(* Others that are in visible_groups and have a score on the item; it is   *)
(* absent when there is no such score.                                     *)
(***************************************************************************)
\* Combined of item i is the rounded unweighted mean of the scores of the
\* categories `cats`, and is absent when `cats` is empty
CombinedIsMeanOf(i, cats) ==
    LET item == result.data.by_item[i]
    IN  IF cats = {}
        THEN "Combined" \notin DOMAIN item
        ELSE /\ "Combined" \in DOMAIN item
             /\ IsRoundedMean(item["Combined"],
                              SumOver(cats, [g \in cats |-> item[g]]),
                              Cardinality(cats), 1)

VisibleScored(i) ==
    {g \in {"Boss", "Peers", "DRs", "Others"} :
        /\ InList(g, result.data.visible_groups)
        /\ g \in DOMAIN result.data.by_item[i]}

C8_CombinedOverVisible ==
    Returned => \A i \in Items : CombinedIsMeanOf(i, VisibleScored(i))

(***************************************************************************)
(* C8 amended: Combined is the mean, rounded to two decimals, of the       *)
(* per-item scores of Boss, of Peers and DRs where they are in             *)
(* visible_groups, and of Others whenever Others has a score on the item,  *)
(* in visible_groups or not; it is the unweighted mean of these category   *)
(* averages, Self never enters it, and it is absent when there is no such  *)
(* score.                                                                  *)
(***************************************************************************)
C8_CombinedOverVisibleAndOthers ==
    Returned =>
        \A i \in Items :
            CombinedIsMeanOf(i, VisibleScored(i)
                                \cup ({"Others"} \cap DOMAIN result.data.by_item[i]))

C8_Witness ==
    /\ Returned
    /\ \E i \in Items :
          LET item == result.data.by_item[i]
          IN  /\ {"Self", "Boss", "Others", "Combined"} \subseteq DOMAIN item
              /\ ~InList("Others", result.data.visible_groups)
              /\ item["Boss"] # item["Others"]
              /\ item["Self"] # item["Boss"]
              /\ 2 * item["Combined"] = item["Boss"] + item["Others"]

(***************************************************************************)
(* C9: Gap is present on an item exactly when Self and Combined both are,  *)
(* and then Gap = Self - Combined, signed.                                 *)
(***************************************************************************)
C9_Gap ==
    Returned =>
        \A i \in Items :
            LET item == result.data.by_item[i]
            IN  /\ "Gap" \in DOMAIN item
                      <=> ("Self" \in DOMAIN item /\ "Combined" \in DOMAIN item)
                /\ "Gap" \in DOMAIN item
                      => item["Gap"] = item["Self"] - item["Combined"]

C9_Witness ==
    /\ Returned
    /\ \E i \in Items :
          /\ "Gap" \in DOMAIN result.data.by_item[i]
          /\ result.data.by_item[i]["Gap"] < 0
    /\ \E i \in Items :
          /\ "Gap" \notin DOMAIN result.data.by_item[i]
          /\ \/ "Self" \in DOMAIN result.data.by_item[i]
             \/ "Combined" \in DOMAIN result.data.by_item[i]

(***************************************************************************)
(* C10: by_dimension[dim][g], for g among Self, Boss, Peers, DRs, Others   *)
(* and Combined, is the mean, rounded to two decimals, of by_item[i][g]    *)
(* over the items of the dimension's range that have a value for g, and is *)
(* absent when none has; the dimension Gap is dimension Self minus         *)
(* dimension Combined when both are present, and absent otherwise.         *)
(***************************************************************************)
C10_DimensionRollUp ==
    Returned =>
        \A d \in DimensionIds :
            LET dim == result.data.by_dimension[DimensionNames[d]]
                range == DIMENSIONS[d][1]..DIMENSIONS[d][2]
            IN  /\ DOMAIN dim \subseteq Categories \cup {"Combined", "Gap"}
                /\ \A g \in Categories \cup {"Combined"} :
                      LET present == {i \in range :
                                         g \in DOMAIN result.data.by_item[i]}
                      IN  IF present = {}
                          THEN g \notin DOMAIN dim
                          ELSE /\ g \in DOMAIN dim
                               /\ IsRoundedMean(
                                      dim[g],
                                      SumOver(present,
                                              [i \in present |->
                                                  result.data.by_item[i][g]]),
                                      Cardinality(present), 1)
                /\ "Gap" \in DOMAIN dim
                      <=> ("Self" \in DOMAIN dim /\ "Combined" \in DOMAIN dim)
                /\ "Gap" \in DOMAIN dim => dim["Gap"] = dim["Self"] - dim["Combined"]

C10_Witness ==
    /\ Returned
    /\ \E d \in DimensionIds :
          LET dim == result.data.by_dimension[DimensionNames[d]]
              range == DIMENSIONS[d][1]..DIMENSIONS[d][2]
          IN  /\ {"Self", "Combined", "Gap"} \subseteq DOMAIN dim
              /\ \E i \in range : "Self" \notin DOMAIN result.data.by_item[i]
              /\ \A i \in range : "Combined" \in DOMAIN result.data.by_item[i]
              /\ \E i, j \in range :
                    result.data.by_item[i]["Combined"]
                        # result.data.by_item[j]["Combined"]
              /\ dim["Gap"] # 0

(***************************************************************************)
(* What the properties of the categorisation speak of                      *)
(***************************************************************************)
Categorized == pc \in {"categorized", "recategorized"}

\* the regular items: all but the two overall-effectiveness items
RegularItems == Items \ {NumItems - 1, NumItems}

\* the positions of a list that hold item i
PositionsOf(i, cat) ==
    {n \in 1..Len(categories[cat]) : categories[cat][n]["item_num"] = i}

InQuadrant(i, cat) == PositionsOf(i, cat) # {}

\* how many times item i is listed, over the four lists
Occurrences(i) ==
    SumOver(DOMAIN categories,
            [cat \in DOMAIN categories |-> Cardinality(PositionsOf(i, cat))])

HasSelfAndCombined(i) ==
    {"Self", "Combined"} \subseteq DOMAIN result.data.by_item[i]

\* the gap of item i is present and significant, upwards or downwards
GapAbove(i) ==
    /\ "Gap" \in DOMAIN result.data.by_item[i]
    /\ result.data.by_item[i]["Gap"] > 50

GapBelow(i) ==
    /\ "Gap" \in DOMAIN result.data.by_item[i]
    /\ result.data.by_item[i]["Gap"] < -50

(***************************************************************************)
(* C11: with H = 4.0 and G = 0.5, a regular item with Self and Combined is *)
(* placed in good_news when Combined >= H and Gap < -G, in hidden_talents  *)
(* when Combined >= H and Gap > G, in agreed_strengths when Combined >= H  *)
(* and the gap is within G or absent, in hidden_talents when Combined < H  *)
(* and Gap > G, and in development_areas when Combined < H and the gap is  *)
(* within G or absent; a gap of exactly G or -G is not significant.        *)
(***************************************************************************)
C11_QuadrantRules ==
    Categorized =>
        /\ HIGH_SCORE_THRESHOLD = 400
        /\ SIGNIFICANT_GAP = 50
        /\ \A i \in RegularItems :
              HasSelfAndCombined(i) =>
                  LET high == result.data.by_item[i]["Combined"] >= 400
                  IN  /\ (high /\ GapBelow(i)) => InQuadrant(i, "good_news")
                      /\ (high /\ GapAbove(i)) => InQuadrant(i, "hidden_talents")
                      /\ (high /\ ~GapBelow(i) /\ ~GapAbove(i))
                            => InQuadrant(i, "agreed_strengths")
                      /\ (~high /\ GapAbove(i)) => InQuadrant(i, "hidden_talents")
                      /\ (~high /\ ~GapBelow(i) /\ ~GapAbove(i))
                            => InQuadrant(i, "development_areas")

C11_Witness ==
    /\ Categorized
    /\ \E i \in RegularItems :
          /\ HasSelfAndCombined(i)
          /\ "Gap" \in DOMAIN result.data.by_item[i]
          /\ result.data.by_item[i]["Self"] = 500
          /\ result.data.by_item[i]["Combined"] = 350
          /\ result.data.by_item[i]["Gap"] = 150
          /\ InQuadrant(i, "hidden_talents")
    /\ \E i \in RegularItems :
          /\ HasSelfAndCombined(i)
          /\ "Gap" \in DOMAIN result.data.by_item[i]
          /\ result.data.by_item[i]["Combined"] = 450
          /\ result.data.by_item[i]["Gap"] = -50
          /\ InQuadrant(i, "agreed_strengths")

(***************************************************************************)
(* C12: a regular item with both Self and Combined is listed exactly once, *)
(* in exactly one of the four lists; a regular item lacking Self or        *)
(* Combined is in none of them.                                            *)
(***************************************************************************)
C12_ExactlyOneQuadrant ==
    Categorized =>
        /\ DOMAIN categories = {PapuCategories[n] : n \in 1..Len(PapuCategories)}
        /\ \A i \in RegularItems :
              Occurrences(i) = IF HasSelfAndCombined(i) THEN 1 ELSE 0

C12_Witness ==
    /\ Categorized
    /\ \E i \in RegularItems :
          /\ "Self" \in DOMAIN result.data.by_item[i]
          /\ "Combined" \notin DOMAIN result.data.by_item[i]
          /\ Occurrences(i) = 0
    /\ \E i \in RegularItems :
          /\ HasSelfAndCombined(i)
          /\ result.data.by_item[i]["Combined"] < 400
          /\ GapBelow(i)
          /\ Occurrences(i) = 1

(***************************************************************************)
(* C14: agreed_strengths and good_news are ordered by Combined             *)
(* non-increasing, development_areas and hidden_talents by Combined        *)
(* non-decreasing.                                                         *)
(***************************************************************************)
C14_SortOrder ==
    Categorized =>
        /\ \A cat \in {"agreed_strengths", "good_news"} :
              \A n \in 1..(Len(categories[cat]) - 1) :
                  categories[cat][n]["combined"] >= categories[cat][n + 1]["combined"]
        /\ \A cat \in {"development_areas", "hidden_talents"} :
              \A n \in 1..(Len(categories[cat]) - 1) :
                  categories[cat][n]["combined"] <= categories[cat][n + 1]["combined"]

C14_Witness ==
    /\ Categorized
    /\ \E cat \in {"agreed_strengths", "good_news"} :
          /\ Len(categories[cat]) >= 2
          /\ categories[cat][1]["item_num"] > categories[cat][2]["item_num"]
          /\ categories[cat][1]["combined"] > categories[cat][2]["combined"]

WithOverall(entry) ==
    [i \in Items |-> IF i \in {NumItems - 1, NumItems} THEN entry
                      ELSE result.data.by_item[i]]

C13_OverallItemsApart ==
    /\ pc \in {"returned", "repeated", "categorized"} =>
          /\ DOMAIN result.data.overall = {NumItems - 1, NumItems}
          /\ \A i \in {NumItems - 1, NumItems} :
                result.data.overall[i] = result.data.by_item[i]
          /\ \A d \in DimensionIds :
                \A i \in {NumItems - 1, NumItems} :
                    i \notin DIMENSIONS[d][1]..DIMENSIONS[d][2]
          /\ \A entry \in {<<>>,
                             [g \in {"Self", "Boss", "Peers", "DRs", "Others",
                                      "Combined", "Gap"} |-> 100]} :
                result.data.by_dimension
                    = by_dimension(WithOverall(entry), result.data.visible_groups)
    /\ pc = "categorized" =>
          \A i \in {NumItems - 1, NumItems} : Occurrences(i) = 0

C13_Witness ==
    /\ pc = "categorized"
    /\ \E i \in {NumItems - 1, NumItems} :
          /\ {"Self", "Combined"} \subseteq DOMAIN result.data.overall[i]
          /\ Occurrences(i) = 0
    /\ \E i \in RegularItems : Occurrences(i) = 1
    /\ \E dim_name \in DOMAIN result.data.by_dimension :
          "Combined" \in DOMAIN result.data.by_dimension[dim_name]

C16_NoneOrAll ==
    (pc = "returned" /\ sessions[1].pc # "closed" /\ sessions[2].pc = "closed") =>
        LET x == sessions[1].rater_id
            raters_none == {IF r.id = x THEN [r EXCEPT !.completed = FALSE] ELSE r :
                               r \in raters}
            ratings_none == {q \in ratings : q.rater_id # x}
            comments_none ==
                FilterBag(comments, {c \in DOMAIN comments : c.rater_id # x})
            none == get_leader_feedback_data(raters_none, ratings_none,
                                             comments_none, TheLeader)
            all == IF sessions[1].pc = "form" THEN none
                   ELSE get_leader_feedback_data(
                            mark_rater_complete(raters_none, x),
                            submit_ratings(ratings_none, x, sessions[1].form.ratings),
                            submit_comments(comments_none, x,
                                            sessions[1].form.comments),
                            TheLeader)
        IN  result \in {none, all}

(***************************************************************************)
(* C17: no step changes the stored item responses of a rater who is        *)
(* completed (no step of the sessions is a delete_rater).                  *)
(***************************************************************************)
C17_CompletedResponsesFrozen ==
    [][\A r \in raters :
          r.completed =>
              {q \in ratings' : q.rater_id = r.id} = {q \in ratings : q.rater_id = r.id}]_vars

(***************************************************************************)
(* C18: the result for a leader is the result on the part of the store     *)
(* that belongs to the leader's completed raters; so two stores that have  *)
(* this part in common return the same, whatever their pending raters, the *)
(* rows stored for pending raters and the other leaders' data.             *)
(***************************************************************************)
C18_OnlyCompletedRaters ==
    pc = "compared" => result = previous

C18_Witness ==
    /\ pc = "compared"
    /\ result = previous
    /\ \E r \in raters :
          /\ r.leader_id = TheLeader
          /\ ~r.completed
          /\ \E q \in ratings : q.rater_id = r.id
          /\ \E c \in DOMAIN comments : c.rater_id = r.id
    /\ \E r \in raters :
          /\ r.leader_id = OtherLeader
          /\ r.completed
          /\ \E q \in ratings : q.rater_id = r.id

(***************************************************************************)
(* C20: when a completed rater of the leader has a stored response that is *)
(* neither a score 1..5 nor 'no opportunity' nor 'not applicable',         *)
(* get_leader_feedback_data returns a data-integrity error to its caller.  *)
(***************************************************************************)
\* the stored rows of the leader's completed raters that are no valid answer
MalformedRows ==
    {row \in rating_rows(raters, ratings, TheLeader) :
        /\ ~row.no_opportunity
        /\ ~(\E q \in ratings : /\ q.rater_id = row.rater_id
                                 /\ q.item_number = row.item_number
                                 /\ q.not_applicable)
        /\ row.score \notin 1..5}

C20_MalformedSurfaced ==
    (pc = "returned" /\ MalformedRows # {}) => "error" \in DOMAIN result

(***************************************************************************)
(* C29: a regular item with Combined < H and Gap < -G is placed in         *)
(* development_areas and not in good_news; every item of good_news has     *)
(* Combined >= H.                                                          *)
(***************************************************************************)
C29_LowCombinedNeverGoodNews ==
    Categorized =>
        /\ \A i \in RegularItems :
              (/\ HasSelfAndCombined(i)
               /\ result.data.by_item[i]["Combined"] < 400
               /\ GapBelow(i))
              => /\ InQuadrant(i, "development_areas")
                 /\ ~InQuadrant(i, "good_news")
        /\ \A n \in 1..Len(categories["good_news"]) :
              categories["good_news"][n]["combined"] >= 400

C29_Witness ==
    /\ Categorized
    /\ \E i \in RegularItems :
          /\ HasSelfAndCombined(i)
          /\ result.data.by_item[i]["Self"] = 200
          /\ result.data.by_item[i]["Combined"] = 350
          /\ GapBelow(i)
          /\ InQuadrant(i, "development_areas")
    /\ \E n \in 1..Len(categories["good_news"]) :
          categories["good_news"][n]["combined"] = 400

(***************************************************************************)
(* C21: for a leader with no completed rater (no rater at all, or pending  *)
(* raters only, with or without stored rows), get_leader_feedback_data     *)
(* returns a result in which no item, dimension or overall entry has a     *)
(* category, Combined or Gap value, every count of response_counts is      *)
(* zero, no_opportunity and hidden_groups are empty, anonymity_applied is  *)
(* false and all comment lists are empty.                                  *)
(***************************************************************************)
NoneCompleted ==
    \A r \in raters : r.leader_id = TheLeader => ~r.completed

C21_ZeroCompletedRaters ==
    (pc = "returned" /\ NoneCompleted) =>
        /\ \A i \in Items : DOMAIN result.data.by_item[i] = {}
        /\ \A dim_name \in DOMAIN result.data.by_dimension :
              DOMAIN result.data.by_dimension[dim_name] = {}
        /\ \A i \in DOMAIN result.data.overall : DOMAIN result.data.overall[i] = {}
        /\ \A g \in DOMAIN result.data.response_counts :
              result.data.response_counts[g] = 0
        /\ DOMAIN result.data.no_opportunity = {}
        /\ result.data.hidden_groups = <<>>
        /\ result.data.anonymity_applied = FALSE
        /\ result.comments.strengths = EmptyBag
        /\ result.comments.development = EmptyBag
        /\ DOMAIN result.comments.by_section = {}

C21_Witness ==
    /\ pc = "returned"
    /\ NoneCompleted
    /\ \E r \in raters :
          /\ \E q \in ratings : q.rater_id = r.id /\ q.score = 5
          /\ \E q \in ratings : q.rater_id = r.id /\ q.no_opportunity
          /\ \E c \in DOMAIN comments : c.rater_id = r.id
    /\ DOMAIN result.data.by_dimension # {}
    /\ "Self" \in DOMAIN result.data.response_counts
    /\ result.data.response_counts["Self"] = 0

(***************************************************************************)
(* C25: after any calls of submit_ratings the store holds at most one      *)
(* response per (rater, item), which is a score, 'no opportunity' or 'not  *)
(* applicable' and exactly one of the three; a call gives each item of its *)
(* dict the value passed, and leaves every other item, and every other     *)
(* rater, as stored before.                                                *)
(***************************************************************************)
\* row holds the answer v of a ratings dict
HoldsAnswer(row, v) ==
    CASE v = "NO" -> row.no_opportunity /\ ~row.not_applicable /\ row.score = NULL
      [] v = "NA" -> ~row.no_opportunity /\ row.not_applicable /\ row.score = NULL
      [] OTHER -> /\ ~row.no_opportunity
                  /\ ~row.not_applicable
                  /\ row.score = (CHOOSE n \in 1..5 :
                                     v = <<"1", "2", "3", "4", "5">>[n])

ResponsesOf(table, rater_id, i) ==
    {q \in table : q.rater_id = rater_id /\ q.item_number = i}

C25_OneResponsePerItem ==
    /\ [](\A r \in raters, i \in Items :
            /\ Cardinality(ResponsesOf(ratings, r.id, i)) <= 1
            /\ \A q \in ResponsesOf(ratings, r.id, i) :
                  \/ HoldsAnswer(q, "NO")
                  \/ HoldsAnswer(q, "NA")
                  \/ (~q.no_opportunity /\ ~q.not_applicable /\ q.score \in 1..5))
    /\ [][(ratings' # ratings /\ raters' = raters) =>
            \E r \in raters, sheet \in RatingSheets :
                /\ \A i \in DOMAIN sheet :
                      /\ Cardinality(ResponsesOf(ratings', r.id, i)) = 1
                      /\ \A q \in ResponsesOf(ratings', r.id, i) :
                            HoldsAnswer(q, sheet[i])
                /\ \A i \in Items \ DOMAIN sheet :
                      ResponsesOf(ratings', r.id, i) = ResponsesOf(ratings, r.id, i)
                /\ \A x \in raters \ {r} :
                      {q \in ratings' : q.rater_id = x.id}
                          = {q \in ratings : q.rater_id = x.id}]_vars

C25_Witness ==
    \E r \in raters :
        /\ \E q \in ResponsesOf(ratings, r.id, 1) : q.not_applicable
        /\ \E q \in ResponsesOf(ratings, r.id, 2) : q.score = 5
        /\ \E q \in ResponsesOf(ratings, r.id, NumItems) : q.not_applicable
        /\ \A i \in Items : Cardinality(ResponsesOf(ratings, r.id, i)) = 1

(***************************************************************************)
(* C26: a step that removes the rater row of r removes every rating and    *)
(* every comment of r in the same step and leaves the rows of every other  *)
(* rater as they were; afterwards the aggregation is the one of the store  *)
(* without r.                                                              *)
(***************************************************************************)
C26_DeleteRater ==
    [][\A r \in raters :
          (\A x \in raters' : x.id # r.id) =>
              /\ \A q \in ratings' : q.rater_id # r.id
              /\ \A c \in DOMAIN comments' : c.rater_id # r.id
              /\ raters' = raters \ {r}
              /\ \A q \in ratings : q.rater_id # r.id => q \in ratings'
              /\ ratings' \subseteq ratings
              /\ \A c \in DOMAIN comments :
                    c.rater_id # r.id => CopiesIn(c, comments') = CopiesIn(c, comments)
              /\ DOMAIN comments' \subseteq DOMAIN comments
              /\ get_leader_feedback_data(raters', ratings', comments', TheLeader)
                    = get_leader_feedback_data(raters \ {r}, ratings, comments,
                                               TheLeader)]_vars

C26_Witness ==
    /\ \E id \in 1..(next_rater_id - 1) : \A r \in raters : r.id # id
    /\ \E r \in raters :
          /\ r.completed
          /\ \E q \in ratings : q.rater_id = r.id
          /\ \E c \in DOMAIN comments : c.rater_id = r.id
    /\ \A q \in ratings : \E r \in raters : r.id = q.rater_id
    /\ \A c \in DOMAIN comments : \E r \in raters : r.id = c.rater_id

(***************************************************************************)
(* C23: in every aggregation result over a store written by submit_ratings *)
(* and submit_feedback, every per-item category score, every Combined      *)
(* value and every dimension value lies in [1.0, 5.0].                     *)
(***************************************************************************)
ScoreKeys == {"Self", "Boss", "Peers", "DRs", "Others", "Combined"}

C23_ScoresInRange ==
    pc = "returned" =>
        /\ \A i \in Items :
              \A g \in DOMAIN result.data.by_item[i] \cap ScoreKeys :
                  result.data.by_item[i][g] \in 100..500
        /\ \A dim_name \in DOMAIN result.data.by_dimension :
              \A g \in DOMAIN result.data.by_dimension[dim_name] \cap ScoreKeys :
                  result.data.by_dimension[dim_name][g] \in 100..500

(***************************************************************************)
(* C24, as stated: with T = 3, 2 completed Peers and 4 completed DRs,      *)
(* Peers is hidden, visible_groups is [Self, Boss, DRs, Others] whatever   *)
(* the original Others count, and response_counts['Others'] is the         *)
(* original Others count + 2.                                              *)
(***************************************************************************)
TwoPeersFourDRs ==
    /\ pc = "returned"
    /\ Get(result.data.raw_response_counts, "Peers", 0) = 2
    /\ Get(result.data.raw_response_counts, "DRs", 0) = 4

C24_FoldedPeersOthersVisible ==
    TwoPeersFourDRs =>
        /\ ANONYMITY_THRESHOLD = 3
        /\ InList("Peers", result.data.hidden_groups)
        /\ result.data.visible_groups = <<"Self", "Boss", "DRs", "Others">>
        /\ "Others" \in DOMAIN result.data.response_counts
        /\ result.data.response_counts["Others"]
              = Get(result.data.raw_response_counts, "Others", 0) + 2

(***************************************************************************)
(* C24, amended: with T = 3, 2 completed Peers and 4 completed DRs, Peers  *)
(* is hidden and not visible, response_counts has no key Peers and its     *)
(* Others is the original Others count + 2; visible_groups is              *)
(* [Self, Boss, DRs, Others] when the original Others count is at least 3, *)
(* and [Self, Boss, DRs] when it is 0, 1 or 2.                             *)
(***************************************************************************)
C24_FoldedPeers ==
    TwoPeersFourDRs =>
        /\ ANONYMITY_THRESHOLD = 3
        /\ InList("Peers", result.data.hidden_groups)
        /\ "Peers" \notin DOMAIN result.data.response_counts
        /\ result.data.visible_groups
              = IF Get(result.data.raw_response_counts, "Others", 0) >= 3
                THEN <<"Self", "Boss", "DRs", "Others">>
                ELSE <<"Self", "Boss", "DRs">>
        /\ "Others" \in DOMAIN result.data.response_counts
        /\ result.data.response_counts["Others"]
              = Get(result.data.raw_response_counts, "Others", 0) + 2

C24_Witness ==
    /\ TwoPeersFourDRs
    /\ "Others" \notin DOMAIN result.data.raw_response_counts
    /\ result.data.response_counts["Others"] = 2
    /\ result.data.visible_groups = <<"Self", "Boss", "DRs">>
    /\ \E i \in Items : "Others" \in DOMAIN result.data.by_item[i]

(***************************************************************************)
(* C27: in every result, also of a run during which raters complete, each  *)
(* category key with a score in by_item and each comment's group label is  *)
(* Self, Boss, Others or a member of visible_groups.                       *)
(***************************************************************************)
ReportableGroups ==
    {"Self", "Boss", "Others"}
    \cup {result.data.visible_groups[n] : n \in 1..Len(result.data.visible_groups)}

CommentGroups ==
    LET lists == {result.comments.strengths, result.comments.development}
                 \cup {result.comments.by_section[section] :
                           section \in DOMAIN result.comments.by_section}
    IN  {c.group : c \in UNION {DOMAIN list : list \in lists}}

C27_LabelsFitCounts ==
    pc = "returned" =>
        /\ \A i \in Items :
              DOMAIN result.data.by_item[i] \cap {"Self", "Boss", "Peers", "DRs", "Others"}
                  \subseteq ReportableGroups
        /\ CommentGroups \subseteq ReportableGroups

(***************************************************************************)
(* C28: whatever has been submitted, and however often, a rater has at     *)
(* most one stored comment per section (so a second submit_feedback with   *)
(* the same comments leaves the comments of the first).                    *)
(***************************************************************************)
C28_OneCommentPerSection ==
    \A c \in DOMAIN comments :
        /\ CopiesIn(c, comments) = 1
        /\ \A d \in DOMAIN comments :
              (d.rater_id = c.rater_id /\ d.section = c.section) => d = c

(***************************************************************************)
(* C22: no report is generated for a leader who has fewer than             *)
(* MIN_RESPONSES_FOR_REPORT (5) completed raters.                          *)
(***************************************************************************)
C22_NoReportBelowMinimum ==
    report # <<>> =>
        Cardinality({r \in raters : r.leader_id = report.leader_id /\ r.completed}) >= 5

(***************************************************************************)
(* C30: in every reachable state, every rater whose completed_at is set    *)
(* has a stored response for each item of the framework.                   *)
(***************************************************************************)
C30_CompletedHaveAllItems ==
    \A r \in raters :
        r.completed =>
            \A i \in Items : \E q \in ratings : q.rater_id = r.id /\ q.item_number = i

====
